---- MODULE Spec2Model ----
(***************************************************************************)
(* Evaluation frames (air/src/air/transition/frame.rs, the CairoCpuFrame   *)
(* of the examples) and the trace polynomial table                         *)
(* (prover/src/trace/poly_table.rs) of mg_winterfell, and the Cairo CPU    *)
(* example's evaluate_transition (air.rs) and get_pub_inputs (prover.rs).  *)
(*                                                                         *)
(* reader is the trace, frame the evaluation frame, table the polynomial   *)
(* table and res the last call and its outcome. SpecPar keeps one frame    *)
(* and one call per worker in frame and res; SpecAir and SpecPub keep the  *)
(* call in progress in res.                                                *)
(*                                                                         *)
(* Indices are 0-based as in the source; TLA+ sequences are 1-based, so    *)
(* element i of a vector v is v[i + 1].                                    *)
(***************************************************************************)
EXTENDS Integers, Sequences, FiniteSets, TLC

VARIABLES reader, frame, table, res

vars == <<reader, frame, table, res>>

\* ------------------------------------------------------------------ bounds

\* Trace lengths 1..MaxLen are tried (and the length 2 * shift of the wide window).
MaxLen == 3
\* The trace width of the Cairo CPU example; trace readers have 1 or TRACE_WIDTH columns.
TRACE_WIDTH == 3
\* read_from is called with steps 0..MaxLen + StepSlack, and with the first logical
\* steps of the wide window.
StepSlack == 1
\* read_from is called with blowup 1..MaxBlowup.
MaxBlowup == 2
\* from_table is given tables of num_rows() - IdxSlack .. num_rows() + IdxSlack rows,
\* and row is asked for indices up to num_rows() + IdxSlack.
IdxSlack == 1
\* row_len and is_active_cell are asked about offsets 0..MaxOffset.
MaxOffset == 17

\* ------------------------------------------------------------ frame shapes

DefaultShape == "Default"
CustomShape == "Custom"
CairoCpuShape == "CairoCpu"

Shapes == {DefaultShape, CustomShape, CairoCpuShape}

DEFAULT_FRAME_SHIFT == 1
CUSTOM_FRAME_SHIFT == 1
CAIRO_FRAME_SHIFT == 16

DEFAULT_FRAME_OFFSETS == <<0, 1>>
CUSTOM_FRAME_OFFSETS == <<0, 1>>
CAIRO_FRAME_OFFSETS == <<0, 1, 2, 3, 4, 5, 6, 7, 8, 9, 10, 11, 12, 13, 14, 15, 16, 17, 18>>

offsets(shape) ==
    CASE shape = DefaultShape -> DEFAULT_FRAME_OFFSETS
      [] shape = CustomShape -> CUSTOM_FRAME_OFFSETS
      [] shape = CairoCpuShape -> CAIRO_FRAME_OFFSETS

shift(shape) ==
    CASE shape = DefaultShape -> DEFAULT_FRAME_SHIFT
      [] shape = CustomShape -> CUSTOM_FRAME_SHIFT
      [] shape = CairoCpuShape -> CAIRO_FRAME_SHIFT

num_rows(shape) == Len(offsets(shape))

Contains(seq, x) == \E i \in 1..Len(seq) : seq[i] = x

\* Option<usize>
None == [some |-> FALSE, val |-> 0]
Some(x) == [some |-> TRUE, val |-> x]

DefaultRowLen(offset) == IF offset < 2 THEN None ELSE Some(0)

DefaultIsActiveCell(offset, column_index) == offset < 2

CustomIsActiveCell(offset, column_index) == Contains(CUSTOM_FRAME_OFFSETS, offset)

CustomRowLen(offset) ==
    IF Contains(offsets(CustomShape), offset) THEN Some(0) ELSE None

\* The shapes whose row_len / is_active_cell the source defines.
QueryShapes == {DefaultShape, CustomShape}

row_len(shape, offset) ==
    IF shape = DefaultShape THEN DefaultRowLen(offset) ELSE CustomRowLen(offset)

is_active_cell(shape, offset, column_index) ==
    IF shape = DefaultShape
    THEN DefaultIsActiveCell(offset, column_index)
    ELSE CustomIsActiveCell(offset, column_index)

\* ------------------------------------------------------------------ Table

\* A dense row-major matrix: a sequence of rows, each a sequence of cells.
ZeroRow(num_cols) == [c \in 1..num_cols |-> 0]

TableNew(rows, num_cols) == [r \in 1..rows |-> ZeroRow(num_cols)]

TableNumRows(t) == Len(t)

\* get_row is bounds-checked: an index past the last row panics.
TableHasRow(t, idx) == idx >= 0 /\ idx < Len(t)

TableGetRow(t, idx) == t[idx + 1]

\* ----------------------------------------------------------- trace reader

\* A trace reader: num_rows x num_cols cells, cells[c + 1][r + 1] = get(c, r).
ReaderInRange(data, row) == row >= 0 /\ row < data.num_rows

ReaderGet(data, col, row) == data.cells[col + 1][row + 1]

\* A trace whose cells are pairwise distinct and non-zero.
DistinctTrace(len, width) ==
    [num_rows |-> len, num_cols |-> width,
     cells |-> [c \in 1..width |-> [r \in 1..len |-> 1 + (c - 1) * len + (r - 1)]]]

TraceWidths == {1, TRACE_WIDTH}

TraceLens == (1..MaxLen) \cup {2 * CAIRO_FRAME_SHIFT}

Steps == (0..(MaxLen + StepSlack)) \cup {0, CAIRO_FRAME_SHIFT, 2 * CAIRO_FRAME_SHIFT}

\* ------------------------------------------------------------------ frames

\* A frame: Default keeps current and next, the table-backed shapes keep table.
DefaultFrame(current, next) ==
    [shape |-> DefaultShape, current |-> current, next |-> next, table |-> <<>>]

TableFrame(shape, t) ==
    [shape |-> shape, current |-> <<>>, next |-> <<>>, table |-> t]

FrameNew(shape, num_cols) ==
    IF shape = DefaultShape
    THEN DefaultFrame(ZeroRow(num_cols), ZeroRow(num_cols))
    ELSE TableFrame(shape, TableNew(num_rows(shape), num_cols))

\* from_table: Default copies rows 0 and 1 (get_row panics when they are missing);
\* the table-backed shapes take the table as it is.
FromTablePanics(shape, t) ==
    shape = DefaultShape /\ ~(TableHasRow(t, 0) /\ TableHasRow(t, 1))

FrameFromTable(shape, t) ==
    IF shape = DefaultShape
    THEN DefaultFrame(TableGetRow(t, 0), TableGetRow(t, 1))
    ELSE TableFrame(shape, t)

\* row(index): the outcome [status, out].
Panic == [status |-> "panic", out |-> <<>>]
Ok(x) == [status |-> "ok", out |-> x]

DefaultRow(f, row_idx) ==
    CASE row_idx = 0 -> Ok(f.current)
      [] row_idx = 1 -> Ok(f.next)
      [] OTHER -> Panic

TableRow(f, row_idx) ==
    IF TableHasRow(f.table, row_idx) THEN Ok(TableGetRow(f.table, row_idx)) ELSE Panic

FrameRow(f, row_idx) ==
    IF f.shape = DefaultShape THEN DefaultRow(f, row_idx) ELSE TableRow(f, row_idx)

\* The logical rows of a frame, in offsets order.
FrameRows(f) == IF f.shape = DefaultShape THEN <<f.current, f.next>> ELSE f.table

\* ---------------------------------------------------------------- read_from

\* The state of a read_from in progress: the frame, the row indices passed to
\* data.get so far, and whether an access panicked.
ReadState(f) == [frame |-> f, gets |-> {}, status |-> "ok"]

ReadPanic(st, idxs) == [st EXCEPT !.gets = @ \cup idxs, !.status = "panic"]

\* The row index of the "current" row.
DefaultCurrentIndex(step, trace_len) == step

\* A read of the next row that ignores the blowup.
DefaultNextIndexSameRow(step, blowup, trace_len) == step % trace_len

\* A read of the next row that forgets the wraparound.
DefaultNextIndexNoWrap(step, blowup, trace_len) == step + blowup

DefaultNextIndex(step, blowup, trace_len) == (step + blowup) % trace_len

RECURSIVE DefaultReadLoop(_, _, _, _, _)
DefaultReadLoop(st, data, step, blowup, col_idx) ==
    LET trace_len == data.num_rows
        cur == DefaultCurrentIndex(step, trace_len)
        nxt == DefaultNextIndex(step, blowup, trace_len)
    IN  IF col_idx >= data.num_cols THEN st
        ELSE IF ~ReaderInRange(data, cur) THEN ReadPanic(st, {cur})
        ELSE IF col_idx >= Len(st.frame.current) THEN ReadPanic(st, {cur})
        ELSE LET st1 == [st EXCEPT !.frame.current[col_idx + 1] = ReaderGet(data, col_idx, cur),
                                   !.gets = @ \cup {cur}]
             IN  IF ~ReaderInRange(data, nxt) THEN ReadPanic(st1, {nxt})
                 ELSE IF col_idx >= Len(st1.frame.next) THEN ReadPanic(st1, {nxt})
                 ELSE DefaultReadLoop(
                        [st1 EXCEPT !.frame.next[col_idx + 1] = ReaderGet(data, col_idx, nxt),
                                    !.gets = @ \cup {nxt}],
                        data, step, blowup, col_idx + 1)

DefaultReadFrom(f, data, step, blowup) == DefaultReadLoop(ReadState(f), data, step, blowup, 0)

\* The row index read for the frame row of offset row_idx.
TableReadIndex(step, row_idx, blowup, trace_len) == (step + row_idx * blowup) % trace_len

\* The nested loops of the table-backed shapes: the outer one over
\* table.rows_mut() zipped with the offsets (it ends with the shorter of the two),
\* the inner one over col_idx. The first access that fails panics: a trace row
\* outside the reader (nothing of that frame row is written) or a column the frame
\* row does not have (the columns before it are written). The frame rows before
\* that one are written in full, the rows after it are left alone.
TableReadRows(f, data, offs, step, blowup) ==
    LET t == f.table
        zipped == IF Len(offs) < Len(t) THEN Len(offs) ELSE Len(t)
        idx(k) == TableReadIndex(step, offs[k], blowup, data.num_rows)
        fails(k) == ~ReaderInRange(data, idx(k)) \/ Len(t[k]) < data.num_cols
        failing == {k \in 1..zipped : fails(k)}
        stop == IF failing = {} THEN zipped + 1
                ELSE CHOOSE k \in failing : \A j \in failing : k <= j
        written(k) == CASE k < stop -> data.num_cols
                        [] k = stop /\ k <= zipped /\ ReaderInRange(data, idx(k)) -> Len(t[k])
                        [] OTHER -> 0
    IN  IF data.num_cols = 0 THEN ReadState(f)
        ELSE [frame |-> [f EXCEPT !.table =
                            [k \in 1..Len(t) |->
                                [c \in 1..Len(t[k]) |->
                                    IF c <= written(k)
                                    THEN ReaderGet(data, c - 1, idx(k))
                                    ELSE t[k][c]]]],
              gets |-> {idx(k) : k \in {j \in 1..zipped : j <= stop}},
              status |-> IF stop <= zipped THEN "panic" ELSE "ok"]

CustomReadFrom(f, data, step, blowup) ==
    TableReadRows(f, data, CUSTOM_FRAME_OFFSETS, step, blowup)

\* A read_from that zips the rows with the two offsets of the Custom shape.
CairoReadFromTwoOffsets(f, data, step, blowup) ==
    TableReadRows(f, data, CUSTOM_FRAME_OFFSETS, step, blowup)

CairoReadFrom(f, data, step, blowup) ==
    TableReadRows(f, data, offsets(CairoCpuShape), step, blowup)

read_from(f, data, step, blowup) ==
    CASE f.shape = DefaultShape -> DefaultReadFrom(f, data, step, blowup)
      [] f.shape = CustomShape -> CustomReadFrom(f, data, step, blowup)
      [] f.shape = CairoCpuShape -> CairoReadFrom(f, data, step, blowup)

\* ------------------------------------------------------------ the record res

\* What the last call was and what it returned.
Res(op, shape, a, b, status, out, gets) ==
    [op |-> op, shape |-> shape, a |-> a, b |-> b, status |-> status, out |-> out,
     gets |-> gets]

NoCall == Res("none", DefaultShape, 0, 0, "ok", <<>>, {})

\* The polynomial table is not used by the frame operations.
NoTable == [main |-> <<>>, aux |-> <<>>]

\* ------------------------------------------------------------ frame actions

\* A table handed to from_table: rows x num_cols, every cell marked by its place.
GivenTable(rows, num_cols) ==
    [r \in 1..rows |-> [c \in 1..num_cols |-> 100 + 10 * (r - 1) + (c - 1)]]

GivenRows(shape) ==
    {n \in (num_rows(shape) - IdxSlack)..(num_rows(shape) + IdxSlack) : n >= 0}

New(shape) ==
    /\ frame' = FrameNew(shape, reader.num_cols)
    /\ res' = Res("new", shape, 0, 0, "ok", <<>>, {})
    /\ UNCHANGED <<reader, table>>

FromTable(shape, rows) ==
    LET t == GivenTable(rows, reader.num_cols)
    IN  /\ IF FromTablePanics(shape, t)
           THEN /\ frame' = frame
                /\ res' = Res("from_table", shape, rows, 0, "panic", <<>>, {})
           ELSE /\ frame' = FrameFromTable(shape, t)
                /\ res' = Res("from_table", shape, rows, 0, "ok", <<>>, {})
        /\ UNCHANGED <<reader, table>>

ReadFrom(step, blowup) ==
    LET st == read_from(frame, reader, step, blowup)
    IN  /\ frame' = st.frame
        /\ res' = Res("read_from", frame.shape, step, blowup, st.status, <<>>, st.gets)
        /\ UNCHANGED <<reader, table>>

Row(index) ==
    LET r == FrameRow(frame, index)
    IN  /\ res' = Res("row", frame.shape, index, 0, r.status, r.out, {})
        /\ UNCHANGED <<reader, frame, table>>

\* to_table: Default builds a table of its two rows, the table-backed shapes clone
\* the table they keep.
DefaultToTable(f) == <<f.current, f.next>>

CustomToTable(f) == f.table

to_table(f) == IF f.shape = DefaultShape THEN DefaultToTable(f) ELSE CustomToTable(f)

ToTable ==
    /\ res' = Res("to_table", frame.shape, 0, 0, "ok", to_table(frame), {})
    /\ UNCHANGED <<reader, frame, table>>

\* is_active_cell(offset, column_index) and row_len(offset) of one shape.
ShapeQuery(shape, offset, column_index) ==
    /\ res' = Res("shape_query", shape, offset, column_index, "ok",
                  [active |-> is_active_cell(shape, offset, column_index),
                   row_len |-> row_len(shape, offset)], {})
    /\ UNCHANGED <<reader, frame, table>>

Init ==
    /\ \E len \in TraceLens, width \in TraceWidths : reader = DistinctTrace(len, width)
    /\ \E shape \in Shapes : frame = FrameNew(shape, reader.num_cols)
    /\ table = NoTable
    /\ res = NoCall

Next ==
    \/ \E shape \in Shapes : New(shape)
    \/ \E shape \in Shapes : \E rows \in GivenRows(shape) : FromTable(shape, rows)
    \/ \E step \in Steps, blowup \in 1..MaxBlowup : ReadFrom(step, blowup)
    \/ \E index \in 0..(num_rows(frame.shape) + IdxSlack) : Row(index)
    \/ ToTable

Spec == Init /\ [][Next]_vars

\* The shape queries alone: pure functions of the shape, the offset and the column.
InitShape ==
    /\ reader = DistinctTrace(1, 1)
    /\ frame = FrameNew(DefaultShape, 1)
    /\ table = NoTable
    /\ res = NoCall

NextShape ==
    \E shape \in QueryShapes :
       \E offset \in 0..MaxOffset, column_index \in 0..(TRACE_WIDTH - 1) :
          ShapeQuery(shape, offset, column_index)

SpecShape == InitShape /\ [][NextShape]_vars

\* ------------------------------------------------------------- the field

\* A prime field with 2-adicity 4 stands for BaseElement (and for E: no extension).
FieldModulus == 17
TWO_ADICITY == 4
\* A generator of the subgroup of order 2^TWO_ADICITY.
TWO_ADIC_ROOT_OF_UNITY == 3

FAdd(a, b) == (a + b) % FieldModulus

FMul(a, b) == (a * b) % FieldModulus

RECURSIVE FExp(_, _)
FExp(base, e) ==
    IF e = 0 THEN 1
    ELSE IF e % 2 = 0 THEN LET half == FExp(base, e \div 2) IN FMul(half, half)
    ELSE FMul(base, FExp(base, e - 1))

RECURSIVE Pow2(_)
Pow2(n) == IF n = 0 THEN 1 ELSE 2 * Pow2(n - 1)

\* log2 of a power of two.
log2(n) == CHOOSE k \in 0..TWO_ADICITY : Pow2(k) = n

\* The root of unity of order 2^n.
get_root_of_unity(n) == FExp(TWO_ADIC_ROOT_OF_UNITY, Pow2(TWO_ADICITY - n))

\* ------------------------------------------------------------- Matrix

\* A matrix of polynomials: a non-empty sequence of columns, each the
\* coefficients of one polynomial, lowest degree first.
MatrixNumRows(m) == Len(m[1])

MatrixNumCols(m) == Len(m)

\* Horner evaluation of the coefficients col[i..] at x.
RECURSIVE PolyEvalFrom(_, _, _)
PolyEvalFrom(col, x, i) ==
    IF i > Len(col) THEN 0 ELSE FAdd(col[i], FMul(x, PolyEvalFrom(col, x, i + 1)))

PolyEval(col, x) == PolyEvalFrom(col, x, 1)

evaluate_columns_at(m, x) == [c \in 1..Len(m) |-> PolyEval(m[c], x)]

\* The evaluations of the columns whose 0-based index is in active, in column order.
RECURSIVE EvaluateSomeFrom(_, _, _, _)
EvaluateSomeFrom(m, x, active, c) ==
    IF c > Len(m) THEN <<>>
    ELSE (IF (c - 1) \in active THEN <<PolyEval(m[c], x)>> ELSE <<>>)
            \o EvaluateSomeFrom(m, x, active, c + 1)

evaluate_some_columns_at(m, x, active) == EvaluateSomeFrom(m, x, active, 1)

\* ------------------------------------------------------- TracePolyTable

TracePolyTableNew(main_trace_polys) == [main |-> main_trace_polys, aux |-> <<>>]

poly_size(t) == MatrixNumRows(t.main)

\* An add_aux_segment that pushes the segment before it compares the sizes.
AddAuxPushThenAssert(t, aux_segment_polys) ==
    [table |-> [t EXCEPT !.aux = Append(@, aux_segment_polys)],
     status |-> IF MatrixNumRows(t.main) # MatrixNumRows(aux_segment_polys)
                THEN "panic" ELSE "ok"]

\* An add_aux_segment without the assertion.
AddAuxNoAssert(t, aux_segment_polys) ==
    [table |-> [t EXCEPT !.aux = Append(@, aux_segment_polys)], status |-> "ok"]

add_aux_segment(t, aux_segment_polys) ==
    IF MatrixNumRows(t.main) # MatrixNumRows(aux_segment_polys)
    THEN [table |-> t, status |-> "panic"]
    ELSE [table |-> [t EXCEPT !.aux = Append(@, aux_segment_polys)], status |-> "ok"]

\* The evaluations of the auxiliary segments i.. at x, in the order of the list.
RECURSIVE EvaluateAuxFrom(_, _, _)
EvaluateAuxFrom(aux, x, i) ==
    IF i > Len(aux) THEN <<>>
    ELSE evaluate_columns_at(aux[i], x) \o EvaluateAuxFrom(aux, x, i + 1)

\* An evaluate_at that puts the auxiliary segments before the main segment.
EvaluateAtAuxFirst(t, x) == EvaluateAuxFrom(t.aux, x, 1) \o evaluate_columns_at(t.main, x)

evaluate_at(t, x) == evaluate_columns_at(t.main, x) \o EvaluateAuxFrom(t.aux, x, 1)

\* An evaluate_some_at that applies the predicate to the auxiliary segments too.
RECURSIVE EvaluateSomeAuxFrom(_, _, _, _)
EvaluateSomeAuxFrom(aux, x, active, i) ==
    IF i > Len(aux) THEN <<>>
    ELSE evaluate_some_columns_at(aux[i], x, active)
            \o EvaluateSomeAuxFrom(aux, x, active, i + 1)

EvaluateSomeAtFilteringAux(t, active, x) ==
    evaluate_some_columns_at(t.main, x, active) \o EvaluateSomeAuxFrom(t.aux, x, active, 1)

\* The predicate is given as the set of the column indices it holds for.
evaluate_some_at(t, active, x) ==
    evaluate_some_columns_at(t.main, x, active) \o EvaluateAuxFrom(t.aux, x, 1)

\* The frame shape of the constraint system: its offsets and its active cells.
AirFrameOffsets(shape) == offsets(shape)

AirIsActiveCell(shape, offset, column_index) ==
    IF shape \in QueryShapes
    THEN is_active_cell(shape, offset, column_index)
    ELSE Contains(offsets(shape), offset)

ActiveColumns(t, shape, offset) ==
    {c \in 0..(MatrixNumCols(t.main) - 1) : AirIsActiveCell(shape, offset, c)}

TraceDomainGenerator(t) == get_root_of_unity(log2(poly_size(t)))

\* A get_ood_frame whose exponent is the offset scaled by the shift of the frame.
GetOodFrameScaledByShift(t, z, shape) ==
    [i \in 1..Len(AirFrameOffsets(shape)) |->
        evaluate_some_at(t, ActiveColumns(t, shape, AirFrameOffsets(shape)[i]),
            FMul(z, FExp(TraceDomainGenerator(t), AirFrameOffsets(shape)[i] * shift(shape))))]

\* The source names the exponent i where the closure binds offset; it is read as
\* the offset.
get_ood_frame(t, z, shape) ==
    [i \in 1..Len(AirFrameOffsets(shape)) |->
        evaluate_some_at(t, ActiveColumns(t, shape, AirFrameOffsets(shape)[i]),
            FMul(z, FExp(TraceDomainGenerator(t), AirFrameOffsets(shape)[i])))]

\* ------------------------------------------------- polynomial table inputs

\* Polynomials have 2^k coefficients, k in 0..MaxLogSize.
MaxLogSize == 2
\* At most MaxAux auxiliary segments are added.
MaxAux == 2

\* The coefficients of the given matrices are built from these seeds.
Seeds == {0, 1}

PolySizes == {Pow2(k) : k \in 0..MaxLogSize}

\* A matrix of size x width: seed b = 0 gives constant polynomials.
GivenMatrix(size, width, a, b) ==
    [c \in 1..width |->
        [i \in 1..size |-> IF i = 1 THEN (1 + a + (c - 1)) % FieldModulus
                           ELSE (b * (i + c + a)) % FieldModulus]]

MainMatrices ==
    {GivenMatrix(size, width, a, b) :
        size \in PolySizes, width \in TraceWidths, a \in Seeds, b \in Seeds}

\* Auxiliary segments of one or two columns.
AuxMatrices ==
    {GivenMatrix(size, 1 + (a % 2), a + 2, 1) : size \in PolySizes, a \in Seeds}

\* The points the polynomials are evaluated at: the trace domain and two points
\* outside it.
OodPoints == {0, 5}

Points(t) == {FExp(TraceDomainGenerator(t), s) : s \in 0..(poly_size(t) - 1)} \cup OodPoints

\* The trace the polynomials of the table interpolate: column c, row r holds the
\* evaluation of column polynomial c (main, then auxiliary) at g^r.
TraceOf(t) ==
    LET g == TraceDomainGenerator(t)
        width == Len(evaluate_at(t, 0))
    IN  [num_rows |-> poly_size(t), num_cols |-> width,
         cells |-> [c \in 1..width |->
                      [r \in 1..poly_size(t) |-> evaluate_at(t, FExp(g, r - 1))[c]]]]

\* ------------------------------------------------ polynomial table actions

AddAuxSegment(m) ==
    LET r == add_aux_segment(table, m)
    IN  /\ Len(table.aux) < MaxAux
        /\ table' = r.table
        /\ res' = Res("add_aux_segment", DefaultShape, MatrixNumRows(m), 0, r.status, m, {})
        /\ UNCHANGED <<reader, frame>>

PolySize ==
    /\ res' = Res("poly_size", DefaultShape, 0, 0, "ok", poly_size(table), {})
    /\ UNCHANGED <<reader, frame, table>>

EvaluateAt(x) ==
    /\ res' = Res("evaluate_at", DefaultShape, x, 0, "ok", evaluate_at(table, x), {})
    /\ UNCHANGED <<reader, frame, table>>

EvaluateSomeAt(active, x) ==
    /\ res' = Res("evaluate_some_at", DefaultShape, x, active, "ok",
                  evaluate_some_at(table, active, x), {})
    /\ UNCHANGED <<reader, frame, table>>

GetOodFrame(z) ==
    /\ res' = Res("get_ood_frame", frame.shape, z, 0, "ok",
                  get_ood_frame(table, z, frame.shape), {})
    /\ UNCHANGED <<reader, frame, table>>

\* The table alone: new, then add_aux_segment and the evaluations in any order.
InitPoly ==
    /\ \E m \in MainMatrices : table = TracePolyTableNew(m)
    /\ frame = FrameNew(DefaultShape, 1)
    /\ reader = DistinctTrace(1, 1)
    /\ res = NoCall

NextPoly ==
    \/ \E m \in AuxMatrices : AddAuxSegment(m)
    \/ PolySize
    \/ \E x \in Points(table) : EvaluateAt(x)
    \/ \E x \in Points(table) :
          \E active \in SUBSET (0..(MatrixNumCols(table.main) - 1)) : EvaluateSomeAt(active, x)
    \/ \E z \in Points(table) : GetOodFrame(z)

SpecPoly == InitPoly /\ [][NextPoly]_vars

\* The table and the trace it interpolates: frames read from the trace, and the
\* out-of-domain frame of the same shape.
InitDual ==
    /\ \E m \in MainMatrices :
          \E t \in {TracePolyTableNew(m)}
                   \cup {add_aux_segment(TracePolyTableNew(m), x).table : x \in AuxMatrices} :
             table = t
    /\ reader = TraceOf(table)
    /\ \E shape \in Shapes : frame = FrameNew(shape, reader.num_cols)
    /\ res = NoCall

NextDual ==
    \/ \E step \in 0..reader.num_rows, blowup \in {1, MaxBlowup} : ReadFrom(step, blowup)
    \/ \E z \in Points(table) : GetOodFrame(z)

SpecDual == InitDual /\ [][NextDual]_vars

\* ---------------------------------------------------------- frame properties

\* The frame holds exactly the rows of its shape, each as wide as the reader.
WellShaped(f) ==
    /\ Len(FrameRows(f)) = num_rows(f.shape)
    /\ \A i \in 1..Len(FrameRows(f)) : Len(FrameRows(f)[i]) = reader.num_cols

\* Frame row i (1-based) holds trace row idx in every column.
HoldsTraceRow(f, i, idx) ==
    /\ ReaderInRange(reader, idx)
    /\ \A c \in 1..reader.num_cols : FrameRows(f)[i][c] = ReaderGet(reader, c - 1, idx)

\* C1: after read_from(reader, step, blowup) on a frame of any shape, with any
\* step >= 0, logical row i holds trace row (step + offsets[i] * blowup) mod L in
\* every column, and every row index passed to reader.get is in 0..L-1.
C1_ReadFromIsModular ==
    (res.op = "read_from" /\ WellShaped(frame)) =>
        /\ res.status = "ok"
        /\ \A i \in 1..num_rows(frame.shape) :
              HoldsTraceRow(frame, i,
                  (res.a + offsets(frame.shape)[i] * res.b) % reader.num_rows)
        /\ \A idx \in res.gets : ReaderInRange(reader, idx)

\* C7: the default shape wraps around. For a step s < L and any blowup b the
\* current row is trace row s and the next row is trace row (s + b) mod L, no
\* index passed to the reader is >= L; for s = L - 1 and b = 1 the next row is
\* trace row 0.
C7_DefaultWraparound ==
    (res.op = "read_from" /\ frame.shape = DefaultShape /\ res.a < reader.num_rows) =>
        /\ res.status = "ok"
        /\ HoldsTraceRow(frame, 1, res.a)
        /\ HoldsTraceRow(frame, 2, (res.a + res.b) % reader.num_rows)
        /\ \A idx \in res.gets : idx < reader.num_rows
        /\ (res.a = reader.num_rows - 1 /\ res.b = 1) => HoldsTraceRow(frame, 2, 0)

\* A default frame read at the last step of a trace of several rows: its next
\* row is the first row of the trace.
C7_Witness ==
    /\ res.op = "read_from" /\ frame.shape = DefaultShape /\ res.status = "ok"
    /\ reader.num_rows > 1 /\ res.a = reader.num_rows - 1 /\ res.b = 1
    /\ HoldsTraceRow(frame, 1, reader.num_rows - 1)
    /\ HoldsTraceRow(frame, 2, 0)

\* C8: the wide window of CairoCpuFrame (offsets 0..18, shift 16). read_from
\* fills the row of offset o with trace row (step + o * blowup) mod L; on a trace
\* of length 32 with blowup 1, the row of offset 16 is trace row 16 at step 0 and
\* trace row 0 at step 16, and at the logical step k (step k * 16) it is trace row
\* (k * 16 + o) mod L.
C8_CairoWideWindow ==
    (res.op = "read_from" /\ frame.shape = CairoCpuShape /\ WellShaped(frame)) =>
        /\ res.status = "ok"
        /\ \A i \in 1..num_rows(CairoCpuShape) :
              HoldsTraceRow(frame, i,
                  (res.a + CAIRO_FRAME_OFFSETS[i] * res.b) % reader.num_rows)
        /\ (reader.num_rows = 2 * CAIRO_FRAME_SHIFT /\ res.b = 1) =>
              /\ res.a = 0 => HoldsTraceRow(frame, CAIRO_FRAME_SHIFT + 1, CAIRO_FRAME_SHIFT)
              /\ res.a = CAIRO_FRAME_SHIFT => HoldsTraceRow(frame, CAIRO_FRAME_SHIFT + 1, 0)
              /\ \A k \in 0..2 : \A i \in 1..num_rows(CairoCpuShape) :
                    res.a = k * shift(CairoCpuShape) =>
                        HoldsTraceRow(frame, i,
                            (k * CAIRO_FRAME_SHIFT + (i - 1)) % reader.num_rows)

\* A CairoCpuFrame read at step 16 of a trace of 32 rows with blowup 1: the row
\* of offset 16 is trace row 0 (and the row of offset 15 is trace row 31).
C8_Witness ==
    /\ res.op = "read_from" /\ frame.shape = CairoCpuShape /\ res.status = "ok"
    /\ WellShaped(frame)
    /\ reader.num_rows = 2 * CAIRO_FRAME_SHIFT /\ res.a = CAIRO_FRAME_SHIFT /\ res.b = 1
    /\ HoldsTraceRow(frame, CAIRO_FRAME_SHIFT + 1, 0)
    /\ HoldsTraceRow(frame, CAIRO_FRAME_SHIFT, 2 * CAIRO_FRAME_SHIFT - 1)

\* C9: row(index) of a frame of any shape, built by new or by from_table, returns
\* the logical row at position index when index < num_rows(), and panics when
\* index >= num_rows().
C9_RowChecksDeclaredCount ==
    res.op = "row" =>
        /\ res.a < num_rows(frame.shape) =>
              /\ res.status = "ok"
              /\ res.a < Len(FrameRows(frame))
              /\ res.out = FrameRows(frame)[res.a + 1]
        /\ res.a >= num_rows(frame.shape) => res.status = "panic"

\* C2: whenever is_active_cell(o, c) is true, row_len(o) is None (all columns
\* active) and not Some(0), for the Default and the Custom shape.
C2_ShapeConsistency ==
    res.op = "shape_query" => (res.out.active => res.out.row_len = None)


\* ------------------------------------------------ polynomial table properties

\* The trace domain generator has order poly_size.
HasOrder(g, n) == FExp(g, n) = 1 /\ \A k \in 1..(n - 1) : FExp(g, k) # 1

\* C3 (rows): on the trace the stored polynomials interpolate, the row that
\* read_from(reader, s, 1) produces for offset o equals
\* evaluate_some_at(is_active_cell(o, .), g^(s + o)), for every step s < L.
C3_ReadEqualsEvaluate ==
    (res.op = "read_from" /\ res.b = 1 /\ res.a < reader.num_rows
        /\ reader = TraceOf(table)) =>
        /\ res.status = "ok"
        /\ HasOrder(TraceDomainGenerator(table), reader.num_rows)
        /\ \A i \in 1..num_rows(frame.shape) :
              FrameRows(frame)[i] =
                  evaluate_some_at(table,
                      ActiveColumns(table, frame.shape, offsets(frame.shape)[i]),
                      FExp(TraceDomainGenerator(table), res.a + offsets(frame.shape)[i]))

\* C3 (frames): get_ood_frame(z = g^s) called after read_from at step s returns
\* the rows of the frame that was read.
C3_OodEqualsRaw ==
    (res.op = "read_from" /\ res.status = "ok" /\ res.b = 1 /\ res.a < reader.num_rows
        /\ reader = TraceOf(table)
        /\ res'.op = "get_ood_frame"
        /\ res'.a = FExp(TraceDomainGenerator(table), res.a)) =>
        res'.out = FrameRows(frame')

\* C3: read/evaluate duality. On the trace the stored polynomials interpolate,
\* for every step s < L and every offset o of the shape, the row read_from(reader,
\* s, 1) produces equals evaluate_some_at(is_active_cell(o, .), g^(s + o)), and
\* get_ood_frame(g^s) equals the frame read at step s.
C3_Duality == []C3_ReadEqualsEvaluate /\ [][C3_OodEqualsRaw]_vars

\* The out-of-domain frame at z = g^3 of a table of size 4 equals the default
\* frame, which was read at the last step and wraps around.
C3_Witness ==
    /\ res.op = "get_ood_frame" /\ frame.shape = DefaultShape
    /\ poly_size(table) = 4 /\ Len(table.aux) = 1
    /\ res.a = FExp(TraceDomainGenerator(table), 3)
    /\ res.out = FrameRows(frame)
    /\ frame.current # frame.next
    /\ HoldsTraceRow(frame, 1, 3) /\ HoldsTraceRow(frame, 2, 0)

\* C4: get_ood_frame(z, air) returns one row per frame offset, in offsets order;
\* the row of offset o is evaluate_some_at(c -> is_active_cell(o, c), z * g^o)
\* with g of order poly_size; the exponent is o whatever the shift of the frame.
C4_OodFrameRows ==
    res.op = "get_ood_frame" =>
        LET g == TraceDomainGenerator(table)
            offs == offsets(res.shape)
        IN  /\ HasOrder(g, poly_size(table))
            /\ Len(res.out) = Len(offs)
            /\ \A i \in 1..Len(offs) :
                  res.out[i] =
                      evaluate_some_at(table,
                          {c \in 0..(MatrixNumCols(table.main) - 1) :
                              AirIsActiveCell(res.shape, offs[i], c)},
                          FMul(res.a, FExp(g, offs[i])))

\* The out-of-domain frame of the wide window (shift 16) at a point outside the
\* trace domain, over polynomials that are not constant.
C4_Witness ==
    /\ res.op = "get_ood_frame" /\ res.shape = CairoCpuShape
    /\ shift(res.shape) > 1
    /\ poly_size(table) = 4 /\ res.a = 5
    /\ Len(res.out) = 19
    /\ res.out[1] # res.out[2]

\* A step of add_aux_segment with a matrix whose row count is not poly_size().
C5_Step ==
    (res'.op = "add_aux_segment" /\ res'.a # poly_size(table)) =>
        /\ res'.status = "panic"
        /\ table'.aux = table.aux
        /\ table'.main = table.main
        /\ poly_size(table') = poly_size(table)

\* C5: add_aux_segment with a matrix whose row count differs from poly_size()
\* fails and leaves the table (main segment, auxiliary segments, poly_size) as
\* it was.
C5_FailedAddLeavesTable == [][C5_Step]_vars

\* A failed add_aux_segment on a table that holds an auxiliary segment.
C5_Witness ==
    /\ res.op = "add_aux_segment" /\ res.status = "panic"
    /\ res.a # poly_size(table)
    /\ Len(table.aux) = 1

\* Every stored auxiliary segment has poly_size() rows.
C6_AuxRows == \A i \in 1..Len(table.aux) : MatrixNumRows(table.aux[i]) = poly_size(table)

\* What a step may do to the table.
C6_Step ==
    /\ table'.main = table.main
    /\ poly_size(table') = poly_size(table)
    /\ \/ table'.aux = table.aux
       \/ /\ res'.op = "add_aux_segment" /\ res'.status = "ok"
          /\ table'.aux = Append(table.aux, res'.out)
    /\ (res'.op \in {"evaluate_at", "evaluate_some_at", "get_ood_frame", "poly_size"})
          => table' = table
    /\ (res'.op = "add_aux_segment" /\ res'.status = "ok")
          => table'.aux = Append(table.aux, res'.out)

\* C6: poly_size() stays the row count of the main matrix given to new, every
\* stored auxiliary segment has poly_size() rows, the auxiliary list changes only
\* by a successful add_aux_segment appending at its end, and the evaluations
\* leave the table as it is.
C6_TableInvariant == []C6_AuxRows /\ [][C6_Step]_vars

\* Two different segments were appended, the second one by the last call.
C6_Witness ==
    /\ Len(table.aux) = 2 /\ table.aux[1] # table.aux[2]
    /\ res.op = "add_aux_segment" /\ res.status = "ok" /\ res.out = table.aux[2]

\* C10: evaluate_some_at(predicate, x) holds the evaluations of the main columns
\* the predicate holds for, in column order, then those of every column of every
\* auxiliary segment: its auxiliary part is that of evaluate_at(x) for every
\* predicate, and with the always-true predicate it equals evaluate_at(x).
C10_EvaluateSome ==
    res.op = "evaluate_some_at" =>
        LET full == evaluate_at(table, res.a)
            width == MatrixNumCols(table.main)
            active == res.b \cap (0..(width - 1))
            kept == Cardinality(active)
            aux_width == Len(full) - width
        IN  /\ Len(res.out) = kept + aux_width
            /\ \A c \in active :
                  res.out[Cardinality({d \in active : d < c}) + 1] = full[c + 1]
            /\ \A j \in 1..aux_width : res.out[kept + j] = full[width + j]
            /\ active = 0..(width - 1) => res.out = full

\* Some but not all of three main columns are evaluated, and two auxiliary segments.
C10_Witness ==
    /\ res.op = "evaluate_some_at"
    /\ MatrixNumCols(table.main) = 3 /\ res.b = {0, 2}
    /\ Len(table.aux) = 2 /\ table.aux[1] # table.aux[2]
    /\ poly_size(table) = 4
    /\ Len(res.out) = 5

\* The value at x of the polynomial with the coefficients col, as the sum of its terms.
RECURSIVE SumOfTerms(_, _, _)
SumOfTerms(col, x, i) ==
    IF i > Len(col) THEN 0
    ELSE FAdd(FMul(col[i] % FieldModulus, FExp(x, i - 1)), SumOfTerms(col, x, i + 1))

\* The number of columns of the auxiliary segments before segment i.
RECURSIVE AuxWidthBefore(_, _)
AuxWidthBefore(aux, i) ==
    IF i <= 1 THEN 0 ELSE AuxWidthBefore(aux, i - 1) + MatrixNumCols(aux[i - 1])

\* C11: evaluate_at(x) returns one value per column polynomial, main_width plus
\* the sum of the auxiliary widths in total: the main columns in column order,
\* then the columns of each auxiliary segment in the order the segments were
\* appended; entry k is the value at x of the k-th column polynomial in that order.
C11_EvaluateAtOrder ==
    res.op = "evaluate_at" =>
        LET width == MatrixNumCols(table.main)
            segments == Len(table.aux)
        IN  /\ Len(res.out) = width + AuxWidthBefore(table.aux, segments + 1)
            /\ \A c \in 1..width : res.out[c] = SumOfTerms(table.main[c], res.a, 1)
            /\ \A i \in 1..segments : \A c \in 1..MatrixNumCols(table.aux[i]) :
                  res.out[width + AuxWidthBefore(table.aux, i) + c]
                      = SumOfTerms(table.aux[i][c], res.a, 1)

\* Three main columns and two different auxiliary segments of four coefficients,
\* the two-column segment appended first, evaluated at a point other than 0 and 1.
C11_Witness ==
    /\ res.op = "evaluate_at" /\ res.a \notin {0, 1}
    /\ MatrixNumCols(table.main) = 3 /\ poly_size(table) = 4
    /\ Len(table.aux) = 2
    /\ MatrixNumCols(table.aux[1]) = 2 /\ MatrixNumCols(table.aux[2]) = 1
    /\ Len(res.out) = 6
    /\ res.out[4] # res.out[6]

\* ------------------------------------------------- parallel frame filling

\* Several workers fill one frame each from the same trace reader. In this
\* specification frame holds the frame of every worker and res the read_from call
\* of every worker: its step and blowup, the number of cells it has written (pc)
\* and the value it has read from the reader and not yet written (held).
MaxWorkers == 2

Workers == 1..MaxWorkers

\* The number of cells one read_from writes.
CellCount(shape, data) == num_rows(shape) * data.num_cols

\* The k-th cell (from 0) one read_from writes: Default goes column by column and
\* writes current, then next; Custom goes row by row and writes every column.
CellAt(shape, data, k) ==
    IF shape = DefaultShape
    THEN [row_idx |-> k % 2, col_idx |-> k \div 2]
    ELSE [row_idx |-> k \div data.num_cols, col_idx |-> k % data.num_cols]

\* The trace row the cells of frame row row_idx are read from.
CellIndex(shape, data, step, blowup, row_idx) ==
    IF shape = DefaultShape
    THEN IF row_idx = 0 THEN DefaultCurrentIndex(step, data.num_rows)
         ELSE DefaultNextIndex(step, blowup, data.num_rows)
    ELSE TableReadIndex(step, offsets(shape)[row_idx + 1], blowup, data.num_rows)

\* The frame f with one cell set.
SetCell(f, row_idx, col_idx, value) ==
    IF f.shape = DefaultShape
    THEN IF row_idx = 0 THEN [f EXCEPT !.current[col_idx + 1] = value]
         ELSE [f EXCEPT !.next[col_idx + 1] = value]
    ELSE [f EXCEPT !.table[row_idx + 1][col_idx + 1] = value]

\* A write that goes to one buffer all the workers share.
WriteCellShared(frames, w, row_idx, col_idx, value) ==
    [frames EXCEPT ![1] = SetCell(frames[1], row_idx, col_idx, value)]

\* The write of read_from of worker w: self is the frame the worker owns.
WriteCell(frames, w, row_idx, col_idx, value) ==
    [frames EXCEPT ![w] = SetCell(frames[w], row_idx, col_idx, value)]

\* A read_from call that has written nothing yet.
ReadCall(step, blowup) ==
    [step |-> step, blowup |-> blowup, pc |-> 0, holding |-> FALSE, held |-> 0]

\* Worker w reads the next cell from the reader: data.get(col_idx, idx).
ParGet(w) ==
    LET shape == frame[w].shape
        cell == CellAt(shape, reader, res[w].pc)
        idx == CellIndex(shape, reader, res[w].step, res[w].blowup, cell.row_idx)
    IN  /\ res[w].pc < CellCount(shape, reader)
        /\ ~res[w].holding
        /\ res' = [res EXCEPT ![w].holding = TRUE,
                              ![w].held = ReaderGet(reader, cell.col_idx, idx)]
        /\ UNCHANGED <<reader, frame, table>>

\* Worker w writes the value it holds into the cell of its frame.
ParPut(w) ==
    LET cell == CellAt(frame[w].shape, reader, res[w].pc)
    IN  /\ res[w].holding
        /\ frame' = WriteCell(frame, w, cell.row_idx, cell.col_idx, res[w].held)
        /\ res' = [res EXCEPT ![w].holding = FALSE, ![w].held = 0, ![w].pc = @ + 1]
        /\ UNCHANGED <<reader, table>>

\* Every worker has a new frame of the same shape and a step of its own, all
\* inside the trace; the blowup is the same for all.
InitPar ==
    /\ \E len \in MaxWorkers..MaxLen, width \in TraceWidths :
          reader = DistinctTrace(len, width)
    /\ \E shape \in QueryShapes : frame = [w \in Workers |-> FrameNew(shape, reader.num_cols)]
    /\ \E steps \in [Workers -> 0..(reader.num_rows - 1)], blowup \in {1, MaxBlowup} :
          /\ \A v, w \in Workers : v # w => steps[v] # steps[w]
          /\ res = [w \in Workers |-> ReadCall(steps[w], blowup)]
    /\ table = NoTable

NextPar ==
    \/ \E w \in Workers : ParGet(w)
    \/ \E w \in Workers : ParPut(w)

SpecPar == InitPar /\ [][NextPar]_vars

\* What the frame of worker w holds when its read_from runs alone.
AloneFrame(w) ==
    read_from(FrameNew(frame[w].shape, reader.num_cols), reader,
              res[w].step, res[w].blowup).frame

\* The cells worker w has written hold what they hold when its read_from runs
\* alone, the cells it has not written yet are those of its new frame, and a
\* worker that is done holds exactly the frame of the run alone.
C12_Frames ==
    \A w \in Workers :
        LET shape == frame[w].shape
            count == CellCount(shape, reader)
            alone == AloneFrame(w)
        IN  /\ res[w].pc \in 0..count
            /\ \A k \in 0..(count - 1) :
                  LET cell == CellAt(shape, reader, k)
                      have == FrameRows(frame[w])[cell.row_idx + 1][cell.col_idx + 1]
                      want == FrameRows(alone)[cell.row_idx + 1][cell.col_idx + 1]
                  IN  have = IF k < res[w].pc THEN want ELSE 0
            /\ res[w].pc = count => frame[w] = alone

\* No step writes the reader, and a frame changes only by a write of its own
\* worker.
C12_Step ==
    /\ reader' = reader
    /\ \A w \in Workers :
          frame'[w] # frame[w] => res[w].holding /\ res'[w].pc = res[w].pc + 1

\* C12: parallel frame filling is interference-free: when several workers each own
\* one frame and run read_from for distinct steps over the same trace reader, under
\* every interleaving of their cell reads and writes each frame ends with the
\* content it gets when its read_from runs alone, the reader is never written, and
\* no read_from writes to a frame other than its own.
C12_InterferenceFree == []C12_Frames /\ [][C12_Step]_vars

\* One worker is done while another one, which has written some of its cells, holds
\* a value it has read and not yet written; the frames are three columns wide.
C12_Witness ==
    /\ DOMAIN frame = Workers /\ reader.num_cols = TRACE_WIDTH
    /\ \E v, w \in Workers :
          /\ v # w
          /\ res[v].pc = CellCount(frame[v].shape, reader) /\ frame[v] = AloneFrame(v)
          /\ res[w].pc > 0 /\ res[w].pc < CellCount(frame[w].shape, reader)
          /\ res[w].holding
          /\ frame[w] # frame[v]

\* ------------------------------------------------------ table round trip

\* C13: to_table / from_table round trip: for every frame f of the Default and the
\* Custom shape to_table() returns a table of exactly num_rows() rows whose row i is
\* f.row(i), and from_table(f.to_table()) has the rows of f; for every table t of
\* exactly num_rows() rows from_table(t).to_table() is t.
C13_RoundTrip ==
    /\ (res.op = "to_table" /\ frame.shape \in QueryShapes) =>
          /\ Len(res.out) = num_rows(frame.shape)
          /\ \A i \in 0..(num_rows(frame.shape) - 1) : FrameRow(frame, i) = Ok(res.out[i + 1])
          /\ ~FromTablePanics(frame.shape, res.out)
          /\ FrameRows(FrameFromTable(frame.shape, res.out)) = FrameRows(frame)
    /\ (res.op = "from_table" /\ res.shape \in QueryShapes /\ res.a = num_rows(res.shape)) =>
          /\ res.status = "ok"
          /\ to_table(frame) = GivenTable(res.a, reader.num_cols)

\* ------------------------------------------- CairoCpuAir::evaluate_transition

\* The number of transition constraint degrees CairoCpuAir::new declares: the
\* result slice evaluate_transition is given has one slot for each.
NUM_TRANSITION_CONSTRAINTS == 31

\* The frame rows evaluate_transition reads, in program order.
ROWS_READ == <<0, 1, 2, 3, 4, 5, 6, 7, 8, 9, 10, 11, 12, 13, 14, 15, 16, 17, 18>>

\* The result indices evaluate_transition assigns, in program order.
RESULT_INDICES ==
    <<0, 1, 2, 3, 4, 5, 6, 7, 8, 9, 10, 11, 12, 13, 14, 15, 16, 17, 18, 19, 20, 21, 22,
      23, 24, 25, 26, 27, 28, 29, 30, 31>>

\* The result slice before the call: every slot unassigned.
NewResult == [i \in 1..NUM_TRANSITION_CONSTRAINTS |-> 0]

\* result[index] = value: an index outside the slice panics. The values are not
\* followed, an assigned slot holds 1.
AssignResult(result, index) ==
    IF index >= 0 /\ index < Len(result)
    THEN Ok([result EXCEPT ![index + 1] = 1])
    ELSE Panic

\* In this specification res is the call of evaluate_transition in progress: a is
\* the number of statements done, b the last result index assigned, out the result
\* slice and gets the frame rows read.
EvalCall(pc, index, status, result, rows) ==
    Res("evaluate_transition", CairoCpuShape, pc, index, status, result, rows)

\* let row_k = frame.row(k)
EvalReadRow ==
    LET k == ROWS_READ[res.a + 1]
        r == FrameRow(frame, k)
    IN  /\ res.status = "ok" /\ res.a < Len(ROWS_READ)
        /\ res' = EvalCall(res.a + 1, res.b, r.status, res.out, res.gets \cup {k})
        /\ UNCHANGED <<reader, frame, table>>

\* result[k] = ...
EvalAssign ==
    LET k == RESULT_INDICES[res.a - Len(ROWS_READ) + 1]
        r == AssignResult(res.out, k)
    IN  /\ res.status = "ok"
        /\ res.a >= Len(ROWS_READ) /\ res.a < Len(ROWS_READ) + Len(RESULT_INDICES)
        /\ res' = EvalCall(res.a + 1, k, r.status,
                           IF r.status = "ok" THEN r.out ELSE res.out, res.gets)
        /\ UNCHANGED <<reader, frame, table>>

\* The frame is a CairoCpuFrame filled by read_from at the first steps of the
\* wide window.
InitAir ==
    /\ reader = DistinctTrace(2 * CAIRO_FRAME_SHIFT, TRACE_WIDTH)
    /\ \E step \in {0, CAIRO_FRAME_SHIFT}, blowup \in 1..MaxBlowup :
          frame = read_from(FrameNew(CairoCpuShape, reader.num_cols), reader, step, blowup).frame
    /\ table = NoTable
    /\ res = EvalCall(0, 0, "ok", NewResult, {})

NextAir ==
    \/ EvalReadRow
    \/ EvalAssign

SpecAir == InitAir /\ [][NextAir]_vars

\* C14: evaluate_transition writes only to result indices smaller than the number
\* of declared transition constraints (no assignment is out of the result slice,
\* every index assigned is in 0..30), and every frame row it reads is below the
\* num_rows() of the frame.
C14_ResultIndicesDeclared ==
    res.op = "evaluate_transition" =>
        /\ res.status = "ok"
        /\ res.a > Len(ROWS_READ) => res.b \in 0..(NUM_TRANSITION_CONSTRAINTS - 1)
        /\ \A k \in res.gets : k < num_rows(frame.shape)

\* ------------------------------------------- CairoCpuProver::get_pub_inputs

\* build_trace is called with the sequence lengths 1..MaxSequenceLength.
MaxSequenceLength == 64

\* The width of usize in the model. The arithmetic of get_pub_inputs wraps the
\* same way at every width of at least 5 bits: the modulus is a multiple of 16.
USIZE_BITS == 16

UsizeModulus == Pow2(USIZE_BITS)

\* The two builds: with overflow checks an overflowing operation panics, without
\* them it wraps.
Builds == {"debug", "release"}

\* A usize operation: the value, and whether the exact result was out of range.
UsizeResult(exact) ==
    [val |-> (exact + UsizeModulus) % UsizeModulus,
     overflow |-> exact < 0 \/ exact >= UsizeModulus]

UsizeSub(a, b) == UsizeResult(a - b)

UsizeAdd(a, b) == UsizeResult(a + b)

UsizeMul(a, b) == UsizeResult(a * b)

UsizeDiv(a, b) == UsizeResult(a \div b)

is_power_of_two(n) == \E k \in 0..(USIZE_BITS - 1) : Pow2(k) = n

\* No trace has been built yet.
NoTrace == [num_rows |-> 0, num_cols |-> TRACE_WIDTH, cells |-> [c \in 1..TRACE_WIDTH |-> <<>>]]

\* build_trace: a trace of TRACE_WIDTH columns and sequence_length rows, every cell
\* ONE; a length that is not a power of two fails the assertion.
build_trace(sequence_length) ==
    IF ~is_power_of_two(sequence_length) THEN Panic
    ELSE Ok([num_rows |-> sequence_length, num_cols |-> TRACE_WIDTH,
             cells |-> [c \in 1..TRACE_WIDTH |-> [r \in 1..sequence_length |-> 1]]])

PUB_FRAME_LENGTH == 18
PUB_FRAME_SHIFT == 16

\* The six trace.get(column, row) of get_pub_inputs in program order; a row is
\* given by what is subtracted from last_step, or as a fixed row.
PubReads ==
    <<[col |-> 1, fixed |-> TRUE, row |-> 2], [col |-> 1, fixed |-> TRUE, row |-> 1],
      [col |-> 0, fixed |-> TRUE, row |-> 2], [col |-> 1, fixed |-> FALSE, row |-> 0],
      [col |-> 1, fixed |-> FALSE, row |-> 1], [col |-> 2, fixed |-> FALSE, row |-> 2]>>

\* In this specification res is the run of the prover: the build, the sequence
\* length, the number of steps done (pc), the value being computed (acc, last_step
\* in the end), whether a usize operation overflowed, the rows read and the
\* values read.
PubCall(op, build, len, pc, acc, overflow, status, rows, out) ==
    [op |-> op, build |-> build, len |-> len, pc |-> pc, acc |-> acc,
     overflow |-> overflow, status |-> status, rows |-> rows, out |-> out]

\* The run after one usize operation of get_pub_inputs: the operation panics when
\* it overflows in the build with overflow checks.
PubArith(call, r) ==
    [call EXCEPT !.pc = @ + 1, !.acc = r.val,
                 !.overflow = @ \/ r.overflow,
                 !.status = IF r.overflow /\ call.build = "debug" THEN "panic" ELSE "ok"]

\* get_pub_inputs is running and has done pc steps.
PubAt(pc) == res.op = "get_pub_inputs" /\ res.status = "ok" /\ res.pc = pc

BuildTrace ==
    LET r == build_trace(res.len)
    IN  /\ res.op = "build_trace" /\ res.status = "ok" /\ res.pc = 0
        /\ IF r.status = "ok"
           THEN /\ reader' = r.out
                /\ res' = [res EXCEPT !.op = "get_pub_inputs"]
           ELSE /\ reader' = reader
                /\ res' = [res EXCEPT !.status = "panic"]
        /\ UNCHANGED <<frame, table>>

\* trace.length() - frame_length
PubSub ==
    /\ PubAt(0)
    /\ res' = PubArith(res, UsizeSub(reader.num_rows, PUB_FRAME_LENGTH))
    /\ UNCHANGED <<reader, frame, table>>

\* (...) / frame_shift
PubDiv ==
    /\ PubAt(1)
    /\ res' = PubArith(res, UsizeDiv(res.acc, PUB_FRAME_SHIFT))
    /\ UNCHANGED <<reader, frame, table>>

\* (...) * frame_shift
PubMul ==
    /\ PubAt(2)
    /\ res' = PubArith(res, UsizeMul(res.acc, PUB_FRAME_SHIFT))
    /\ UNCHANGED <<reader, frame, table>>

\* (...) + frame_length
PubAdd ==
    /\ PubAt(3)
    /\ res' = PubArith(res, UsizeAdd(res.acc, PUB_FRAME_LENGTH))
    /\ UNCHANGED <<reader, frame, table>>

\* The next trace.get: the row is computed in usize, and a row outside the trace
\* panics.
PubGet ==
    LET rd == PubReads[res.pc - 3]
        r == IF rd.fixed THEN UsizeResult(rd.row) ELSE UsizeSub(res.acc, rd.row)
    IN  /\ res.op = "get_pub_inputs" /\ res.status = "ok"
        /\ res.pc >= 4 /\ res.pc < 4 + Len(PubReads)
        /\ IF r.overflow /\ res.build = "debug"
           THEN res' = [res EXCEPT !.pc = @ + 1, !.overflow = TRUE, !.status = "panic"]
           ELSE res' = [res EXCEPT !.pc = @ + 1,
                                   !.overflow = @ \/ r.overflow,
                                   !.rows = @ \cup {r.val},
                                   !.status = IF ReaderInRange(reader, r.val)
                                              THEN "ok" ELSE "panic",
                                   !.out = IF ReaderInRange(reader, r.val)
                                           THEN Append(@, ReaderGet(reader, rd.col, r.val))
                                           ELSE @]
        /\ UNCHANGED <<reader, frame, table>>

InitPub ==
    /\ reader = NoTrace
    /\ frame = FrameNew(CairoCpuShape, TRACE_WIDTH)
    /\ table = NoTable
    /\ \E build \in Builds, len \in 1..MaxSequenceLength :
          res = PubCall("build_trace", build, len, 0, 0, FALSE, "ok", {}, <<>>)

NextPub ==
    \/ BuildTrace
    \/ PubSub
    \/ PubDiv
    \/ PubMul
    \/ PubAdd
    \/ PubGet

SpecPub == InitPub /\ [][NextPub]_vars

\* C15: for every power-of-two sequence length build_trace accepts, get_pub_inputs
\* computes last_step = ((length - 18) / 16) * 16 + 18 without unsigned-integer
\* underflow (no usize operation is out of range, none panics), and every trace
\* row it reads is smaller than the trace length.
C15_LastStepInsideTrace ==
    res.op = "get_pub_inputs" =>
        /\ ~res.overflow
        /\ res.status = "ok"
        /\ \A r \in res.rows : r < reader.num_rows

====
